---- MODULE Spec2Model ----
(***************************************************************************)
(* A model of the game-state engine of the game prototype: the state of    *)
(* game_state.py, the resolvers and the action catalog of actions.py, the  *)
(* turn loop of main.py, and the zones of the game loop of                 *)
(* ultimate_tianjibian_game.py.                                            *)
(*                                                                         *)
(* Conventions.  Python's None is the string None where a name is          *)
(* expected and the record NoCard where a card is expected.  A markers     *)
(* dict is a function whose DOMAIN is the set of keys of the dict.  The    *)
(* eight gua zones and the four locations are written in pinyin.           *)
(***************************************************************************)
EXTENDS Integers, Sequences, FiniteSets, TLC

\* game_state: the GameState the caller holds; last: the resolver call just
\* made; phase: where main_game_loop and run_action_phase stand; ultimate:
\* the game of ultimate_tianjibian_game.py
VARIABLES game_state, last, phase, ultimate

vars == <<game_state, last, phase, ultimate>>

(***************************************************************************)
(* Bounds of the model.                                                    *)
(***************************************************************************)
MaxPlayers == 3
NumShuffles == 1
DeckSize == 6
MaxDiscount == 1
MaxExtraInfluence == 1
MaxAP == 2
MaxQi == 8
MaxChengYi == 2
\* the rounds of main_game_loop the model follows
MaxRounds == 2
\* the actions the model lets main_game_loop resolve into a new state
MaxResolved == 3
\* the zones of the zone list a player of the ultimate game chooses among
MaxZoneChoice == 2
\* the greatest current_turn of the ultimate game the model follows
MaxUltimateTurns == 1
\* the greatest number of players setup_game is asked for
MaxSetupPlayers == 9
MaxHeld == 5
MaxCalls == 2
MaxAmount == 2
MaxLedger == 5
MaxGate == 4
\* yin and yang points a balance starts with, and transformations applied
MaxPoints == 6
MaxTransforms == 3
\* dao_xing of the player a transformation's success rate is computed for
MaxInsight == 22
\* dao_xing a fortune is divined with
MaxDivineInsight == 10

(***************************************************************************)
(* game_state.py                                                           *)
(***************************************************************************)
None == "None"

\* class Zone(Enum): the member names
Zone == {"DI", "REN", "TIAN", "TAIJI"}

\* Zone.value of each member
ZoneValue == [z \in Zone |->
                 CASE z = "DI" -> "di"
                   [] z = "REN" -> "ren"
                   [] z = "TIAN" -> "tian"
                   [] z = "TAIJI" -> "taiji"]

\* Zone(value): the member with that value, or ValueError
ZoneFromValue(str) ==
    IF \E z \in Zone : ZoneValue[z] = str
    THEN CHOOSE z \in Zone : ZoneValue[z] = str
    ELSE "ValueError"

\* the keys of GameBoard.gua_zones
GuaZones == {"qian", "kun", "zhen", "xun", "kan", "li", "gen", "dui"}

\* Modifiers(): the dataclass with its default field values
Modifiers == [qi_discount |-> 0, extra_ap |-> 0, extra_influence |-> 0,
              extra_dao_xing_on_task |-> 0, cards_to_draw_on_study |-> 2,
              has_free_study |-> FALSE, hand_limit_bonus |-> 0,
              empower_cost_increase |-> 0]

NoCard == [name |-> 0, associated_guas |-> <<>>]

\* Player.__init__
Player(name) ==
    [name |-> name, dao_xing |-> 0, cheng_yi |-> 0, qi |-> 0, hand |-> <<>>,
     position |-> "DI", influence_markers |-> 15, current_task_card |-> NoCard,
     placed_influence_this_turn |-> FALSE]

\* GameBoard.__init__: the base limit by the number of players
BaseLimit(num_players) ==
    IF num_players = 2 THEN 5 ELSE IF num_players = 3 THEN 6 ELSE 7

EmptyMarkers == [p \in {} |-> 0]

GameBoard(num_players) ==
    [base_limit |-> BaseLimit(num_players),
     gua_zones |-> [z \in GuaZones |-> [markers |-> EmptyMarkers, controller |-> None]],
     player_positions |-> [p \in {} |-> "DI"]]

\* GameState.__init__
GameState(players) ==
    [board |-> [GameBoard(Len(players)) EXCEPT
                   !.player_positions =
                       [n \in {players[i].name : i \in 1..Len(players)} |->
                           players[CHOOSE i \in 1..Len(players) : players[i].name = n].position]],
     players |-> players,
     current_player_index |-> 0,
     turn |-> 1]

\* GameState.get_current_player: the index into the 1-based sequence players
get_current_player(gs) == gs.current_player_index + 1

(***************************************************************************)
(* game_data.py is not among the sources: the deck is a list of DeckSize   *)
(* cards, each with the gua zones it can be played into.                   *)
(***************************************************************************)
GAME_DECK ==
    [i \in 1..DeckSize |->
        [name |-> i,
         associated_guas |-> CASE i % 3 = 1 -> <<"qian">>
                               [] i % 3 = 2 -> <<"qian", "kun">>
                               [] OTHER -> <<"kun">>]]

\* random.shuffle(deck): the orders the model draws from are the rotations
Shuffled(k) == [i \in 1..DeckSize |-> GAME_DECK[((i - 1 + k) % DeckSize) + 1]]

\* random.shuffle(deck): every order of the deck
random_shuffle(deck) ==
    {[i \in 1..Len(deck) |-> deck[f[i]]] : f \in Permutations(1..Len(deck))}

(***************************************************************************)
(* main.py: setup_game                                                     *)
(***************************************************************************)
PlayerNames == <<"P1", "P2", "P3", "P4", "P5", "P6", "P7", "P8">>

Min(a, b) == IF a < b THEN a ELSE b
Max(a, b) == IF a > b THEN a ELSE b

\* the hand the j-th player is dealt: four pops from the end of the deck,
\* after the 4 * (j - 1) pops of the players before
DealtHand(deck, j) ==
    LET left == Max(Len(deck) - 4 * (j - 1), 0)
    IN [k \in 1..Min(4, left) |-> deck[left - (k - 1)]]

setup_game_from_zero(num_players, deck) ==
    IF ~(0 <= num_players /\ num_players <= 8)
    THEN [raised |-> TRUE, state |-> GameState(<<>>)]
    ELSE LET players == [i \in 1..num_players |->
                            Player(IF num_players > 1 THEN PlayerNames[i] ELSE "Solo")]
             dealt == [i \in 1..num_players |->
                          [players[i] EXCEPT !.hand = DealtHand(deck, i),
                                             !.qi = 8, !.dao_xing = 1, !.cheng_yi = 2]]
         IN [raised |-> FALSE,
             state |-> [GameState(players) EXCEPT !.players = dealt]]

setup_game(num_players, deck) ==
    IF ~(1 <= num_players /\ num_players <= 8)
    THEN [raised |-> TRUE, state |-> GameState(<<>>)]
    ELSE LET players == [i \in 1..num_players |->
                            Player(IF num_players > 1 THEN PlayerNames[i] ELSE "Solo")]
             dealt == [i \in 1..num_players |->
                          [players[i] EXCEPT !.hand = DealtHand(deck, i),
                                             !.qi = 8, !.dao_xing = 1, !.cheng_yi = 2]]
             \* the players are filled in place after GameState(players)
         IN [raised |-> FALSE,
             state |-> [GameState(players) EXCEPT !.players = dealt]]

(***************************************************************************)
(* actions.py: the resolvers                                               *)
(***************************************************************************)
Range(s) == {s[i] : i \in 1..Len(s)}

\* list.pop(index), index counted from 0: the list that is left
Pop(s, index) == [k \in 1..(Len(s) - 1) |-> IF k <= index THEN s[k] ELSE s[k + 1]]

MaxOf(S) == CHOOSE m \in S : \A x \in S : x <= m

\* copy.deepcopy(game_state): a fresh object with the same content
copy_alias(obj) == [object |-> "input", value |-> obj]

copy_deepcopy(obj) == [object |-> "fresh", value |-> obj]

\* What a call leaves behind: whether a state was returned, whether it
\* raised, the content of the object new_state at the end of the call, the
\* content of the input object at the end of the call, and whether the
\* returned object is the input object.
Outcome(new_state, final, returned, raised, input) ==
    [returned |-> returned, raised |-> raised, state |-> final,
     input_after |-> IF new_state.object = "input" THEN final ELSE input,
     same_object |-> returned /\ new_state.object = "input"]

control_threshold_half(gs) == gs.board.base_limit \div 2

\* control_threshold = gs.board.base_limit // 2 + 1
control_threshold(gs) == gs.board.base_limit \div 2 + 1

check_zone_control_no_tie(gs, zone_name) ==
    LET markers == gs.board.gua_zones[zone_name].markers
    IN IF DOMAIN markers = {}
       THEN [gs EXCEPT !.board.gua_zones[zone_name].controller = None]
       ELSE LET max_influence == MaxOf({markers[p] : p \in DOMAIN markers})
                players_with_max == {p \in DOMAIN markers : markers[p] = max_influence}
            IN IF max_influence >= control_threshold(gs)
               THEN [gs EXCEPT !.board.gua_zones[zone_name].controller =
                                   CHOOSE p \in players_with_max : TRUE]
               ELSE [gs EXCEPT !.board.gua_zones[zone_name].controller = None]

check_zone_control(gs, zone_name) ==
    LET markers == gs.board.gua_zones[zone_name].markers
    IN IF DOMAIN markers = {}
       THEN [gs EXCEPT !.board.gua_zones[zone_name].controller = None]
       ELSE LET max_influence == MaxOf({markers[p] : p \in DOMAIN markers})
                players_with_max == {p \in DOMAIN markers : markers[p] = max_influence}
            IN IF Cardinality(players_with_max) = 1 /\ max_influence >= control_threshold(gs)
               THEN [gs EXCEPT !.board.gua_zones[zone_name].controller =
                                   CHOOSE p \in players_with_max : TRUE]
               ELSE [gs EXCEPT !.board.gua_zones[zone_name].controller = None]

\* play_card placing one marker whatever mods.extra_influence is
play_card_one_marker(gs, card_index, zone_choice, mods) ==
    LET new_state == copy_deepcopy(gs)
        s0 == new_state.value
        i == get_current_player(s0)
        player == s0.players[i]
    IN IF ~(0 <= card_index /\ card_index < Len(player.hand))
       THEN Outcome(new_state, s0, FALSE, FALSE, gs)
       ELSE LET card_to_play == player.hand[card_index + 1]
                s1 == [s0 EXCEPT !.players[i].hand = Pop(player.hand, card_index)]
            IN IF zone_choice \notin Range(card_to_play.associated_guas)
               THEN Outcome(new_state, s1, FALSE, FALSE, gs)
               ELSE LET influence_to_place == 1
                        zone_markers == s1.board.gua_zones[zone_choice].markers
                        before == IF player.name \in DOMAIN zone_markers
                                  THEN zone_markers[player.name] ELSE 0
                        placed == [p \in DOMAIN zone_markers \cup {player.name} |->
                                      IF p = player.name THEN before + influence_to_place
                                      ELSE zone_markers[p]]
                        s2 == [s1 EXCEPT !.players[i].current_task_card = card_to_play,
                                         !.players[i].placed_influence_this_turn = TRUE,
                                         !.board.gua_zones[zone_choice].markers = placed]
                    IN Outcome(new_state, check_zone_control(s2, zone_choice), TRUE, FALSE, gs)

play_card(gs, card_index, zone_choice, mods) ==
    LET new_state == copy_deepcopy(gs)
        s0 == new_state.value
        i == get_current_player(s0)
        player == s0.players[i]
    IN IF ~(0 <= card_index /\ card_index < Len(player.hand))
       THEN Outcome(new_state, s0, FALSE, FALSE, gs)
       ELSE LET card_to_play == player.hand[card_index + 1]
                s1 == [s0 EXCEPT !.players[i].hand = Pop(player.hand, card_index)]
            IN IF zone_choice \notin Range(card_to_play.associated_guas)
               THEN Outcome(new_state, s1, FALSE, FALSE, gs)
               ELSE LET influence_to_place == 1 + mods.extra_influence
                        zone_markers == s1.board.gua_zones[zone_choice].markers
                        before == IF player.name \in DOMAIN zone_markers
                                  THEN zone_markers[player.name] ELSE 0
                        placed == [p \in DOMAIN zone_markers \cup {player.name} |->
                                      IF p = player.name THEN before + influence_to_place
                                      ELSE zone_markers[p]]
                        s2 == [s1 EXCEPT !.players[i].current_task_card = card_to_play,
                                         !.players[i].placed_influence_this_turn = TRUE,
                                         !.board.gua_zones[zone_choice].markers = placed]
                    IN Outcome(new_state, check_zone_control(s2, zone_choice), TRUE, FALSE, gs)

\* qi_cost = max(1 - mods.qi_discount, 0)
qi_cost(mods) == Max(1 - mods.qi_discount, 0)

move_full_cost(gs, target_zone_str, mods) ==
    LET new_state == copy_deepcopy(gs)
        s0 == new_state.value
        i == get_current_player(s0)
        player == s0.players[i]
        target_zone == ZoneFromValue(target_zone_str)
    IN IF target_zone = "ValueError"
       THEN Outcome(new_state, s0, FALSE, FALSE, gs)
       ELSE IF player.qi < 1
       THEN Outcome(new_state, s0, FALSE, FALSE, gs)
       ELSE Outcome(new_state,
                    [s0 EXCEPT !.players[i].position = target_zone,
                               !.players[i].qi = player.qi - 1,
                               !.board.player_positions[player.name] = target_zone],
                    TRUE, FALSE, gs)

move(gs, target_zone_str, mods) ==
    LET new_state == copy_deepcopy(gs)
        s0 == new_state.value
        i == get_current_player(s0)
        player == s0.players[i]
        target_zone == ZoneFromValue(target_zone_str)
    IN IF target_zone = "ValueError"
       THEN Outcome(new_state, s0, FALSE, FALSE, gs)
       ELSE IF player.qi < qi_cost(mods)
       THEN Outcome(new_state, s0, FALSE, FALSE, gs)
       ELSE Outcome(new_state,
                    [s0 EXCEPT !.players[i].position = target_zone,
                               !.players[i].qi = player.qi - qi_cost(mods),
                               !.board.player_positions[player.name] = target_zone],
                    TRUE, FALSE, gs)

\* study: draws[k] is the card random.choice(GAME_DECK) gives at the k-th draw.
\* Reading mods.extra_card_draw raises AttributeError when mods has no such
\* attribute.
study(gs, mods, draws) ==
    LET new_state == copy_deepcopy(gs)
        s0 == new_state.value
        i == get_current_player(s0)
        current_player == s0.players[i]
    IN IF "extra_card_draw" \notin DOMAIN mods
       THEN Outcome(new_state, s0, FALSE, TRUE, gs)
       ELSE LET cards_to_draw == 2 + mods.extra_card_draw
                                 + (IF current_player.position = "REN" THEN 1 ELSE 0)
                drawn == IF DeckSize > 0
                         THEN [k \in 1..cards_to_draw |-> GAME_DECK[draws[k]]]
                         ELSE <<>>
                hand == current_player.hand \o drawn
                s1 == [s0 EXCEPT !.players[i].hand = hand,
                                 !.players[i].dao_xing =
                                     IF Len(hand) >= 5 THEN current_player.dao_xing + 1
                                     ELSE current_player.dao_xing]
            IN Outcome(new_state, s1, TRUE, FALSE, gs)

\* wisdom_system.check_wisdom_triggers and apply_wisdom_effects on the
\* acting player after action_type: wisdom_system.py is not among the
\* sources; the specification keeps the wisdom system outside the engine,
\* with no effect on the resources of the game state
apply_wisdom_effects(player, action_type) == player

meditate_sign_slip(gs, mods) ==
    LET new_state == copy_deepcopy(gs)
        s0 == new_state.value
        i == get_current_player(s0)
        player == s0.players[i]
        qi_gain == CASE player.position = "TIAN" -> 4
                     [] player.position = "REN" -> 3
                     [] player.position = "DI" -> 2
                     [] OTHER -> 3
        qi == player.qi - qi_gain
        s1 == IF qi >= 10
              THEN [s0 EXCEPT !.players[i].qi = qi - 2,
                              !.players[i].cheng_yi = player.cheng_yi + 1]
              ELSE [s0 EXCEPT !.players[i].qi = qi]
    IN Outcome(new_state, s1, TRUE, FALSE, gs)

\* meditate gaining the base 3 qi at every position
meditate_base_gain(gs, mods) ==
    LET new_state == copy_deepcopy(gs)
        s0 == new_state.value
        i == get_current_player(s0)
        player == s0.players[i]
        qi_gain == 3
        qi == player.qi + qi_gain
        s1 == IF qi >= 10
              THEN [s0 EXCEPT !.players[i].qi = qi - 2,
                              !.players[i].cheng_yi = player.cheng_yi + 1]
              ELSE [s0 EXCEPT !.players[i].qi = qi]
    IN Outcome(new_state, s1, TRUE, FALSE, gs)

meditate(gs, mods) ==
    LET new_state == copy_deepcopy(gs)
        s0 == new_state.value
        i == get_current_player(s0)
        player == s0.players[i]
        qi_gain == CASE player.position = "TIAN" -> 4
                     [] player.position = "REN" -> 3
                     [] player.position = "DI" -> 2
                     [] OTHER -> 3
        qi == player.qi + qi_gain
        s1 == IF qi >= 10
              THEN [s0 EXCEPT !.players[i].qi = qi - 2,
                              !.players[i].cheng_yi = player.cheng_yi + 1]
              ELSE [s0 EXCEPT !.players[i].qi = qi]
        s2 == [s1 EXCEPT !.players[i] = apply_wisdom_effects(@, "meditate")]
    IN Outcome(new_state, s2, TRUE, FALSE, gs)

(***************************************************************************)
(* yijing_actions.py is not among the sources.  The wrappers the catalog   *)
(* offers are modelled by the rules the specification gives for the        *)
(* canonical actions: enhanced_play_card and enhanced_meditate resolve as  *)
(* play_card and meditate; enhanced_study draws 2 cards (3 at REN) and     *)
(* never rejects; divine_fortune keeps its gate (3 qi) as a defensive      *)
(* check and changes no resource.                                          *)
(***************************************************************************)
enhanced_play_card(gs, card_index, zone_choice, mods) ==
    play_card(gs, card_index, zone_choice, mods)

enhanced_meditate(gs, mods) == meditate(gs, mods)

enhanced_study(gs, mods, draws) ==
    study(gs, [f \in DOMAIN mods \cup {"extra_card_draw"} |->
                  IF f = "extra_card_draw" THEN 0 ELSE mods[f]], draws)

divine_fortune(gs, mods) ==
    LET new_state == copy_deepcopy(gs)
        s0 == new_state.value
    IN IF s0.players[get_current_player(s0)].qi < 3
       THEN Outcome(new_state, s0, FALSE, FALSE, gs)
       ELSE Outcome(new_state, s0, TRUE, FALSE, gs)

(***************************************************************************)
(* actions.py: get_valid_actions.  The dict id -> entry is the sequence of *)
(* its entries, ids counting from 1.  An entry keeps the card index of     *)
(* args in index (-1 when it has none) and the zone or location of args in *)
(* target ("" when it has none).                                           *)
(***************************************************************************)
Entry(action, cost, index, target) ==
    [action |-> action, cost |-> cost, index |-> index, target |-> target]

\* for zone in Zone: the members in definition order
ZoneOrder == <<"DI", "REN", "TIAN", "TAIJI">>

RECURSIVE PlayEntries(_, _)
\* for i, card in enumerate(player.hand): for gua in card.associated_guas
PlayEntries(hand, i) ==
    IF i >= Len(hand) THEN <<>>
    ELSE [g \in 1..Len(hand[i + 1].associated_guas) |->
             Entry("enhanced_play_card", 1, i, hand[i + 1].associated_guas[g])]
         \o PlayEntries(hand, i + 1)

\* if ap >= 1 and player.qi >= 1
move_offered(player, ap) == ap >= 1 /\ player.qi >= 1

MoveEntries(player) ==
    LET others == SelectSeq(ZoneOrder, LAMBDA z : z # player.position)
    IN [k \in 1..Len(others) |-> Entry("move", 1, -1, ZoneValue[others[k]])]

\* get_valid_actions offering the consult entry from dao_xing 1 on
get_valid_actions_low_gate(gs, player, ap, mods) ==
    <<Entry("pass", 0, -1, "")>>
    \o (IF ap >= 1 THEN PlayEntries(player.hand, 0) ELSE <<>>)
    \o (IF move_offered(player, ap) THEN MoveEntries(player) ELSE <<>>)
    \o (IF ap >= 1 THEN <<Entry("enhanced_study", 1, -1, "")>> ELSE <<>>)
    \o (IF ap >= 1 THEN <<Entry("enhanced_meditate", 1, -1, "")>> ELSE <<>>)
    \o (IF ap >= 1 /\ player.cheng_yi >= 3 THEN <<Entry("biangua_prompt", 1, -1, "")>> ELSE <<>>)
    \o (IF ap >= 1 /\ player.qi >= 3 THEN <<Entry("divine_fortune", 1, -1, "")>> ELSE <<>>)
    \o <<Entry("wisdom_progress", 0, -1, ""), Entry("tutorial_menu", 0, -1, ""),
         Entry("learning_progress", 0, -1, ""), Entry("achievement_progress", 0, -1, ""),
         Entry("achievement_list", 0, -1, ""), Entry("view_enhanced_cards", 0, -1, "")>>
    \o (IF ap >= 1 THEN <<Entry("use_enhanced_card", 1, -1, "")>> ELSE <<>>)
    \o (IF ap >= 1 /\ player.dao_xing >= 1 THEN <<Entry("consult_yijing_prompt", 1, -1, "")>> ELSE <<>>)

get_valid_actions(gs, player, ap, mods) ==
    <<Entry("pass", 0, -1, "")>>
    \o (IF ap >= 1 THEN PlayEntries(player.hand, 0) ELSE <<>>)
    \o (IF move_offered(player, ap) THEN MoveEntries(player) ELSE <<>>)
    \o (IF ap >= 1 THEN <<Entry("enhanced_study", 1, -1, "")>> ELSE <<>>)
    \o (IF ap >= 1 THEN <<Entry("enhanced_meditate", 1, -1, "")>> ELSE <<>>)
    \o (IF ap >= 1 /\ player.cheng_yi >= 3 THEN <<Entry("biangua_prompt", 1, -1, "")>> ELSE <<>>)
    \o (IF ap >= 1 /\ player.qi >= 3 THEN <<Entry("divine_fortune", 1, -1, "")>> ELSE <<>>)
    \o <<Entry("wisdom_progress", 0, -1, ""), Entry("tutorial_menu", 0, -1, ""),
         Entry("learning_progress", 0, -1, ""), Entry("achievement_progress", 0, -1, ""),
         Entry("achievement_list", 0, -1, ""), Entry("view_enhanced_cards", 0, -1, "")>>
    \o (IF ap >= 1 THEN <<Entry("use_enhanced_card", 1, -1, "")>> ELSE <<>>)
    \o (IF ap >= 1 /\ player.dao_xing >= 2 THEN <<Entry("consult_yijing_prompt", 1, -1, "")>> ELSE <<>>)

\* the entries whose action is a function, not a string tag
Callable == {"enhanced_play_card", "move", "enhanced_study", "enhanced_meditate",
             "divine_fortune"}

\* new_state = action_func(game_state, *args, mods)
CallEntry(gs, entry, mods, draws) ==
    CASE entry.action = "enhanced_play_card" ->
             enhanced_play_card(gs, entry.index, entry.target, mods)
      [] entry.action = "move" -> move(gs, entry.target, mods)
      [] entry.action = "enhanced_study" -> enhanced_study(gs, mods, draws)
      [] entry.action = "enhanced_meditate" -> enhanced_meditate(gs, mods)
      [] entry.action = "divine_fortune" -> divine_fortune(gs, mods)

(***************************************************************************)
(* The resolvers under their callers.  A caller holds one GameState        *)
(* (game_state), calls a resolver on it with inputs of its choice, and     *)
(* keeps the returned state, or, after a rejection, the input.  Between    *)
(* calls it may pass the turn on (simple_game_test.py).  last records the  *)
(* call just made.                                                          *)
(***************************************************************************)
NoCall == [op |-> "none", index |-> -1, target |-> "", result |-> "none",
           input_intact |-> TRUE, ret_distinct |-> TRUE]

ModsSet == {[Modifiers EXCEPT !.qi_discount = d, !.extra_influence = e] :
               d \in 0..MaxDiscount, e \in 0..MaxExtraInfluence}

\* the location strings a caller passes to move: the four values and a
\* string that is no location
MoveTargets == {ZoneValue[z] : z \in Zone} \cup {"qian"}

\* the draws of one study call
DrawSet == {[k \in 1..3 |-> d] : d \in 1..Min(2, DeckSize)}

Acting(gs) == gs.players[get_current_player(gs)]

\* what the caller holds and what it saw after the call r on game_state
Called(op, index, target, r) ==
    /\ game_state' = IF r.returned THEN r.state ELSE r.input_after
    /\ last' = [op |-> op, index |-> index, target |-> target,
                result |-> IF r.raised THEN "raised"
                           ELSE IF r.returned THEN "returned" ELSE "None",
                input_intact |-> r.input_after = game_state,
                ret_distinct |-> ~r.same_object]
    /\ UNCHANGED <<phase, ultimate>>

\* the state after setup_game(n), for one of the shuffles
Setup(n) ==
    /\ \E k \in 0..(NumShuffles - 1) : game_state = setup_game(n, Shuffled(k)).state
    /\ last = NoCall

\* no game built: what a caller holds before setup_game returns
NoGame == GameState(<<>>)

\* setup_game(num_players) for the num_players the caller asked for
\* (last.index), with any shuffle of the deck
SetupCall ==
    /\ last.op = "input"
    /\ \E deck \in random_shuffle(GAME_DECK) :
           LET r == setup_game(last.index, deck)
           IN /\ game_state' = IF r.raised THEN game_state ELSE r.state
              /\ last' = [last EXCEPT !.op = "setup_game",
                                      !.result = IF r.raised THEN "raised" ELSE "returned"]
    /\ UNCHANGED <<phase, ultimate>>

\* MaxExtra: the greatest extra_influence the caller passes
PlayCardCall(MaxExtra) ==
    \E card_index \in -1..Len(Acting(game_state).hand), zone_choice \in GuaZones,
       e \in 0..MaxExtra :
        Called("play_card", card_index, "", 
               play_card(game_state, card_index, zone_choice,
                         [Modifiers EXCEPT !.extra_influence = e]))

MoveCall ==
    \E target \in MoveTargets, d \in 0..MaxDiscount :
        Called("move", -1, target,
               move(game_state, target, [Modifiers EXCEPT !.qi_discount = d]))

StudyCall ==
    \E draws \in DrawSet :
        Called("study", -1, "", study(game_state, Modifiers, draws))

MeditateCall ==
    /\ Acting(game_state).qi <= MaxQi
    /\ Acting(game_state).cheng_yi <= MaxChengYi
    /\ Called("meditate", -1, "", meditate(game_state, Modifiers))

\* game_state.current_player_index = (game_state.current_player_index + 1) % len(game_state.players)
SwitchPlayer ==
    /\ game_state' = [game_state EXCEPT !.current_player_index =
                         (game_state.current_player_index + 1) % Len(game_state.players)]
    /\ last' = [NoCall EXCEPT !.op = "switch"]
    /\ UNCHANGED <<phase, ultimate>>

(***************************************************************************)
(* main.py: get_current_modifiers, run_action_phase and main_game_loop.    *)
(* game_data.py is not among the sources: GUA_ZONE_BONUSES gives each zone *)
(* one of the six bonus types get_current_modifiers reads, or none.        *)
(***************************************************************************)
GUA_ZONE_BONUSES ==
    [z \in GuaZones |->
        CASE z = "qian" -> "EXTRA_AP"
          [] z = "kun" -> "QI_DISCOUNT"
          [] z = "zhen" -> "EXTRA_INFLUENCE"
          [] z = "xun" -> "FREE_STUDY"
          [] z = "kan" -> "HAND_LIMIT"
          [] z = "li" -> "DAO_XING_ON_TASK"
          [] z = "gen" -> "EXTRA_AP"
          [] OTHER -> None]

\* the number of zones player controls whose bonus is bonus_type
ControlledWith(player, gs, bonus_type) ==
    Cardinality({z \in GuaZones : /\ gs.board.gua_zones[z].controller = player.name
                                  /\ GUA_ZONE_BONUSES[z] = bonus_type})

\* game_state.board.gua_zones.items(): the zones in the order of the dict
GuaZoneOrder == <<"qian", "kun", "zhen", "xun", "kan", "li", "gen", "dui">>

\* the body of the for loop of get_current_modifiers for one zone
apply_zone_bonus(mods, player, gs, zone_name) ==
    IF gs.board.gua_zones[zone_name].controller # player.name
    THEN mods
    ELSE LET bonus_type == GUA_ZONE_BONUSES[zone_name]
         IN CASE bonus_type = "EXTRA_AP" -> [mods EXCEPT !.extra_ap = @ + 1]
              [] bonus_type = "HAND_LIMIT" -> [mods EXCEPT !.hand_limit_bonus = @ + 2]
              [] bonus_type = "EXTRA_INFLUENCE" -> [mods EXCEPT !.extra_influence = @ + 1]
              [] bonus_type = "FREE_STUDY" -> [mods EXCEPT !.has_free_study = TRUE]
              [] bonus_type = "QI_DISCOUNT" -> [mods EXCEPT !.qi_discount = @ + 1]
              [] bonus_type = "DAO_XING_ON_TASK" ->
                     [mods EXCEPT !.extra_dao_xing_on_task = @ + 1]
              [] OTHER -> mods

RECURSIVE modifiers_loop(_, _, _, _)
\* the for loop of get_current_modifiers from the k-th zone on
modifiers_loop(mods, player, gs, k) ==
    IF k > Len(GuaZoneOrder)
    THEN mods
    ELSE modifiers_loop(apply_zone_bonus(mods, player, gs, GuaZoneOrder[k]), player, gs, k + 1)

\* get_current_modifiers with mods the object a call before it returned
\* instead of a new Modifiers()
get_current_modifiers_shared(player, gs) == modifiers_loop(phase.mods, player, gs, 1)

\* get_current_modifiers stopping at the first zone that gives the player a
\* bonus
get_current_modifiers_first(player, gs) ==
    LET hits == {k \in 1..Len(GuaZoneOrder) :
                    apply_zone_bonus(Modifiers, player, gs, GuaZoneOrder[k]) # Modifiers}
    IN IF hits = {} THEN Modifiers
       ELSE apply_zone_bonus(Modifiers, player, gs,
                             GuaZoneOrder[CHOOSE k \in hits : \A h \in hits : k <= h])

\* mods = Modifiers(), the loop over the zones, return mods
get_current_modifiers(player, gs) == modifiers_loop(Modifiers, player, gs, 1)

\* actions_menu = get_valid_actions(game_state, player, ap, mods) for the
\* current player with phase.ap AP left: last.target is the set of the
\* actions of the entries of the menu built
BuildMenu ==
    /\ phase.pc = "catalog"
    /\ LET menu == get_valid_actions(game_state, Acting(game_state), phase.ap, Modifiers)
       IN last' = [last EXCEPT !.op = "get_valid_actions",
                               !.target = {menu[k].action : k \in 1..Len(menu)}]
    /\ phase' = [phase EXCEPT !.pc = "built"]
    /\ UNCHANGED <<game_state, ultimate>>

\* mods = get_current_modifiers(player, game_state) for one of the players:
\* phase.mods is the value returned, last names the player and counts the
\* calls
GetModifiers ==
    /\ phase.pc = "modifiers"
    /\ last.index < MaxCalls
    /\ \E i \in 1..Len(game_state.players) :
           /\ phase' = [phase EXCEPT !.mods =
                            get_current_modifiers(game_state.players[i], game_state)]
           /\ last' = [last EXCEPT !.op = "get_current_modifiers",
                                   !.index = @ + 1,
                                   !.target = game_state.players[i].name]
    /\ UNCHANGED <<game_state, ultimate>>

\* max_turns = 50
max_turns == 50

\* the string-tagged entries run_action_phase has a branch for
MenuActions == {"wisdom_progress", "tutorial_menu", "learning_progress",
                "achievement_progress", "achievement_list", "view_enhanced_cards",
                "use_enhanced_card"}

\* pc: "round" before a round of main_game_loop, "turn" before the turn of
\* players[i], "phase" inside run_action_phase, "victory" after the last turn
\* of a round, "done" when the game has ended.  players is the list the for
\* loop of the round iterates, i its index; ap and mods are those of
\* run_action_phase; resolved counts the actions resolved into a new state
\* since the game began, rounds the rounds begun in this run of the loop, and
\* winner the name the loop announced as the winner (None while it has not).
NoPhase == [pc |-> "idle", turn_count |-> 0, players |-> <<>>, i |-> 0, ap |-> 0,
            mods |-> Modifiers, resolved |-> 0, rounds |-> 0, winner |-> None]

\* the object run_action_phase holds as player: the element of the list the
\* round began with
PhasePlayer == phase.players[phase.i + 1]

\* actions_menu = actions.get_valid_actions(game_state, player, ap, mods, **flags)
actions_menu == get_valid_actions(game_state, PhasePlayer, phase.ap, phase.mods)

\* while turn_count < max_turns: turn_count += 1, the random event (each
\* player gains a qi, up to 10, or does not), and the for loop begins
StartRound ==
    /\ phase.pc = "round"
    /\ phase.turn_count < max_turns
    /\ phase.rounds < MaxRounds
    /\ \E lucky \in SUBSET (1..Len(game_state.players)) :
           LET players == [j \in 1..Len(game_state.players) |->
                              IF j \in lucky
                              THEN [game_state.players[j] EXCEPT !.qi = Min(@ + 1, 10)]
                              ELSE game_state.players[j]]
           IN /\ game_state' = [game_state EXCEPT !.players = players]
              /\ phase' = [phase EXCEPT !.pc = "turn", !.turn_count = @ + 1,
                                        !.rounds = @ + 1,
                                        !.players = players, !.i = 0]
    /\ UNCHANGED <<last, ultimate>>

\* mods = get_current_modifiers(player, game_state) and the head of
\* run_action_phase: ap = 2 + mods.extra_ap
StartTurn ==
    /\ phase.pc = "turn"
    /\ LET mods == get_current_modifiers(PhasePlayer, game_state)
       IN phase' = [phase EXCEPT !.pc = "phase", !.mods = mods,
                                 !.ap = 2 + mods.extra_ap]
    /\ UNCHANGED <<game_state, last, ultimate>>

\* use_enhanced_card_action(player): a card of the player's is used, or the
\* function returns with none used (no card available, not enough qi for
\* any, the choice of cancel, a choice out of range, a use that fails); which
\* of the two is the input used
use_enhanced_card_action(used) == IF used THEN "used" ELSE "not_used"

\* the result of one iteration that chose entry: what became of the state
\* the loop holds and of ap.  The handlers of the string-tagged entries
\* print, or work on the card, tutorial and achievement systems, which are
\* not among the sources: they leave the GameState as it is.
Resolve(entry, draws, used) ==
    IF entry.action = "use_enhanced_card"
    THEN [state |-> game_state, ap |-> phase.ap - entry.cost,
          result |-> use_enhanced_card_action(used)]
    ELSE IF entry.action \in MenuActions
    THEN [state |-> game_state, ap |-> phase.ap - entry.cost, result |-> "shown"]
    ELSE IF entry.action \notin Callable
    THEN [state |-> game_state, ap |-> phase.ap, result |-> "no_handler"]
    ELSE LET r == CallEntry(game_state, entry, phase.mods, draws)
         IN IF r.raised
            THEN [state |-> r.input_after, ap |-> phase.ap, result |-> "raised"]
            ELSE IF r.returned
            THEN [state |-> r.state, ap |-> phase.ap - entry.cost, result |-> "new_state"]
            ELSE [state |-> r.input_after, ap |-> phase.ap, result |-> "None"]

\* the draws an entry's resolution can make: only study draws
DrawsOf(entry) ==
    IF entry.action = "enhanced_study" THEN DrawSet ELSE {[k \in 1..3 |-> 1]}

\* what a card use can come to: only use_enhanced_card has two outcomes
UsesOf(entry) ==
    IF entry.action = "use_enhanced_card" THEN BOOLEAN ELSE {TRUE}

\* one iteration of while ap > 0 whose choice is an entry of the menu other
\* than pass
Choose ==
    /\ phase.pc = "phase"
    /\ phase.ap > 0
    /\ \E id \in 1..Len(actions_menu) :
         \E draws \in DrawsOf(actions_menu[id]), used \in UsesOf(actions_menu[id]) :
           LET entry == actions_menu[id]
               r == Resolve(entry, draws, used)
           IN /\ entry.action # "pass"
              /\ r.result = "new_state" => phase.resolved < MaxResolved
              /\ game_state' = r.state
              /\ phase' = [phase EXCEPT !.ap = r.ap,
                                        !.resolved = IF r.result = "new_state"
                                                     THEN @ + 1 ELSE @]
    /\ UNCHANGED <<last, ultimate>>

\* an input that is no number, or a number that is no id of the menu: the
\* loop goes round with nothing changed
InvalidChoice ==
    /\ phase.pc = "phase"
    /\ phase.ap > 0
    /\ UNCHANGED vars

\* run_action_phase returns, and the for loop goes on to the next player
\* (the achievement bookkeeping in between is not among the sources)
NextTurn ==
    [phase EXCEPT !.pc = IF phase.i + 1 < Len(phase.players) THEN "turn" ELSE "victory",
                  !.i = IF phase.i + 1 < Len(phase.players) THEN phase.i + 1 ELSE phase.i]

\* the choice of pass (break), or the end of the input (return game_state)
Pass ==
    /\ phase.pc = "phase"
    /\ phase.ap > 0
    /\ phase' = NextTurn
    /\ UNCHANGED <<game_state, last, ultimate>>

\* while ap > 0 ends
OutOfAP ==
    /\ phase.pc = "phase"
    /\ phase.ap <= 0
    /\ phase' = NextTurn
    /\ UNCHANGED <<game_state, last, ultimate>>

\* controlled_zones of the player named name
controlled_zones(gs, name) ==
    Cardinality({z \in GuaZones : gs.board.gua_zones[z].controller = name})

\* controlled_zones >= 5 for some player
zone_control_victory(gs) ==
    \E j \in 1..Len(gs.players) :
        Cardinality({z \in GuaZones :
                        gs.board.gua_zones[z].controller = gs.players[j].name}) >= 5

\* for player in game_state.players: the first one with controlled_zones >= 5
\* is announced
zone_control_winner(gs) ==
    LET first == CHOOSE j \in 1..Len(gs.players) :
                     /\ controlled_zones(gs, gs.players[j].name) >= 5
                     /\ \A k \in 1..(j - 1) : controlled_zones(gs, gs.players[k].name) < 5
    IN gs.players[first].name

\* after the for loop: the traditional zone control victory ends the game
\* (check_victory_conditions_enhanced of yijing_actions.py, called before
\* it, is not among the sources)
CheckVictory ==
    /\ phase.pc = "victory"
    /\ phase' = IF zone_control_victory(game_state)
                 THEN [phase EXCEPT !.pc = "done",
                                    !.winner = zone_control_winner(game_state)]
                 ELSE [phase EXCEPT !.pc = "round"]
    /\ UNCHANGED <<game_state, last, ultimate>>

\* the while condition turn_count < max_turns fails: the loop prints "Game
\* ended after maximum turns." and returns, with no winner announced
MaxTurnsReached ==
    /\ phase.pc = "round"
    /\ ~(phase.turn_count < max_turns)
    /\ phase' = [phase EXCEPT !.pc = "done"]
    /\ UNCHANGED <<game_state, last, ultimate>>

(***************************************************************************)
(* ultimate_tianjibian_game.py: the zones, the hands and the AP of the     *)
(* game UltimateTianJiBianGame runs.  Of the actions of its menu only      *)
(* playing a card writes a zone or a hand; the others are left out.        *)
(***************************************************************************)
\* avatars = ["帝王", "隐士", "学者", "武者"]
avatars == <<"diwang", "yinshi", "xuezhe", "wuzhe">>

\* starting_cards = ["乾为天", "坤为地", "水雷屯", "山水蒙"]
starting_cards == <<"qian_wei_tian", "kun_wei_di", "shui_lei_zhun", "shan_shui_meng">>

\* UltimatePlayer(name=name, avatar=avatar), then the avatar's adjustment of
\* the starting resources and the starting hand
UltimatePlayer(name, avatar) ==
    [name |-> name,
     ap |-> 3 + (CASE avatar = "diwang" -> 1 [] avatar = "wuzhe" -> 2 [] OTHER -> 0),
     qi |-> 5 + (CASE avatar = "yinshi" -> 3 [] avatar = "xuezhe" -> 2 [] OTHER -> 0),
     dao_xing |-> (CASE avatar = "yinshi" -> 1 [] avatar = "xuezhe" -> 2 [] OTHER -> 0),
     cheng_yi |-> 3 + (CASE avatar = "diwang" -> 2 [] avatar = "wuzhe" -> 1 [] OTHER -> 0),
     hand |-> starting_cards]

\* list(self.game_state.zones.keys())
UltimateZoneOrder == <<"qian", "kun", "zhen", "xun", "kan", "li", "gen", "dui">>

\* UltimateGameState after _initialize_systems and _initialize_players
UltimateGameState(player_names) ==
    [pc |-> "start", game_running |-> TRUE, current_turn |-> 0,
     current_player_index |-> 0,
     players |-> [i \in 1..Len(player_names) |->
                     UltimatePlayer(player_names[i],
                                    avatars[((i - 1) % Len(avatars)) + 1])],
     zones |-> [z \in GuaZones |-> [controller |-> None, influence |-> EmptyMarkers]]]

NoUltimate == [UltimateGameState(<<>>) EXCEPT !.pc = "idle", !.game_running = FALSE]

\* the index into players of get_current_player()
UltimateCurrent == ultimate.current_player_index + 1

\* _play_card(player, card_name, zone), player the i-th of ugs.players
_play_card(ugs, i, zone) ==
    LET player == ugs.players[i]
        influence == ugs.zones[zone].influence
        before == IF player.name \in DOMAIN influence THEN influence[player.name] ELSE 0
        added == [p \in DOMAIN influence \cup {player.name} |->
                     IF p = player.name THEN before + 2 ELSE influence[p]]
        max_influence == MaxOf({added[p] : p \in DOMAIN added})
        old_controller == ugs.zones[zone].controller
    IN IF added[player.name] = max_influence
       THEN [ugs EXCEPT !.zones[zone] = [controller |-> player.name, influence |-> added],
                        !.players[i].dao_xing =
                            IF old_controller # player.name THEN @ + 2 ELSE @]
       ELSE [ugs EXCEPT !.zones[zone].influence = added]

\* list.remove(x): without the first element equal to x
Remove(s, x) ==
    LET k == CHOOSE j \in 1..Len(s) : s[j] = x /\ \A h \in 1..(j - 1) : s[h] # x
    IN Pop(s, k - 1)

\* _start_turn: player.ap = min(5, player.ap + 2)
_start_turn ==
    /\ ultimate.pc = "start"
    /\ ultimate.game_running
    /\ ultimate' = [ultimate EXCEPT !.pc = "turn",
                                    !.players[UltimateCurrent].ap = Min(5, @ + 2)]
    /\ UNCHANGED <<game_state, last, phase>>

\* _action_play_card: choice is the card index entered, counted from 0 (one
\* past the hand is an index out of range); zone_choice is the index
\* _select_target_zone reads, which returns None outside the zone list
_action_play_card ==
    /\ ultimate.pc = "turn"
    /\ ultimate.players[UltimateCurrent].ap > 0
    /\ ultimate.players[UltimateCurrent].hand # <<>>
    /\ \E choice \in 0..Len(ultimate.players[UltimateCurrent].hand),
          zone_choice \in 0..(MaxZoneChoice - 1) \cup {Len(UltimateZoneOrder)} :
           LET player == ultimate.players[UltimateCurrent]
               zone == IF 0 <= zone_choice /\ zone_choice < Len(UltimateZoneOrder)
                       THEN UltimateZoneOrder[zone_choice + 1] ELSE None
           IN IF choice < Len(player.hand) /\ zone # None
              THEN LET played == _play_card(ultimate, UltimateCurrent, zone)
                   IN ultimate' =
                          [played EXCEPT
                              !.players[UltimateCurrent].hand =
                                  Remove(@, player.hand[choice + 1]),
                              !.players[UltimateCurrent].ap = @ - 1]
              ELSE ultimate' = ultimate
    /\ UNCHANGED <<game_state, last, phase>>

\* _check_victory_conditions: dao_xing >= 20 or 5 controlled zones
_check_victory_conditions(ugs) ==
    \E i \in 1..Len(ugs.players) :
        \/ ugs.players[i].dao_xing >= 20
        \/ Cardinality({z \in GuaZones :
                           ugs.zones[z].controller = ugs.players[i].name}) >= 5

\* UltimateGameState.next_player
next_player(ugs) ==
    LET index == (ugs.current_player_index + 1) % Len(ugs.players)
    IN [ugs EXCEPT !.current_player_index = index,
                   !.current_turn = IF index = 0 THEN @ + 1 ELSE @]

\* the end of _player_turn (no AP left, or the choice to end the turn), then
\* _end_turn, _check_victory_conditions and next_player
_end_turn ==
    /\ ultimate.pc = "turn"
    /\ IF _check_victory_conditions(ultimate)
       THEN ultimate' = [ultimate EXCEPT !.pc = "over", !.game_running = FALSE]
       ELSE /\ next_player(ultimate).current_turn <= MaxUltimateTurns
            /\ ultimate' = [next_player(ultimate) EXCEPT !.pc = "start"]
    /\ UNCHANGED <<game_state, last, phase>>

\* the resources of the ledger of UltimatePlayer
LedgerResources == {"ap", "qi", "dao_xing", "cheng_yi"}

\* UltimatePlayer.modify_resource(resource, amount): the player afterwards
modify_resource(player, resource, amount) ==
    IF resource \in LedgerResources
    THEN [player EXCEPT ![resource] = Max(0, @ + amount)]
    ELSE player

\* UltimatePlayer.can_afford(cost), cost a dict from resources to amounts
can_afford(player, cost) ==
    \A resource \in DOMAIN cost :
        ~(resource \in LedgerResources /\ player[resource] < cost[resource])

RECURSIVE pay_all(_, _, _)
\* for resource, amount in cost.items(): self.modify_resource(resource,
\* -amount), over the resources of todo
pay_all(player, cost, todo) ==
    IF todo = {}
    THEN player
    ELSE LET resource == CHOOSE r \in todo : TRUE
         IN pay_all(modify_resource(player, resource, -cost[resource]), cost,
                    todo \ {resource})

\* UltimatePlayer.pay_cost(cost): the value returned and the player afterwards
pay_cost(player, cost) ==
    IF ~can_afford(player, cost)
    THEN [returned |-> FALSE, player |-> player]
    ELSE [returned |-> TRUE, player |-> pay_all(player, cost, DOMAIN cost)]

\* the costs pay_cost is called with: dicts over one or two resources
CostSet ==
    UNION {[S -> 1..MaxAmount] : S \in {T \in SUBSET LedgerResources :
                                           Cardinality(T) \in 1..2}}

\* player.modify_resource(resource, amount) on the current player; last
\* records the call, its argument as the dict {resource: amount}
ModifyResourceCall ==
    /\ ultimate.pc = "ledger"
    /\ \E resource \in LedgerResources, amount \in (-MaxAmount)..MaxAmount :
           LET player == modify_resource(ultimate.players[UltimateCurrent], resource, amount)
           IN /\ player[resource] <= MaxLedger
              /\ ultimate' = [ultimate EXCEPT !.players[UltimateCurrent] = player]
              /\ last' = [last EXCEPT !.op = "modify_resource",
                                        !.target = [r \in {resource} |-> amount],
                                        !.result = "None"]
    /\ UNCHANGED <<game_state, phase>>

\* player.pay_cost(cost) on the current player
PayCostCall ==
    /\ ultimate.pc = "ledger"
    /\ \E cost \in CostSet :
           LET r == pay_cost(ultimate.players[UltimateCurrent], cost)
           IN /\ ultimate' = [ultimate EXCEPT !.players[UltimateCurrent] = r.player]
              /\ last' = [last EXCEPT !.op = "pay_cost",
                                        !.target = cost,
                                        !.result = IF r.returned THEN "True" ELSE "False"]
    /\ UNCHANGED <<game_state, phase>>

\* controlled_zones of _check_victory_conditions for the player named name
ultimate_controlled_zones(ugs, name) ==
    Cardinality({z \in GuaZones : ugs.zones[z].controller = name})

\* the call _declare_victory(winner, victory_type) that
\* _check_victory_conditions makes: for each player in the order of the
\* players dict, dao_xing >= 20 and then controlled_zones >= 5, the first hit
\* returning; winner None when it makes none (faction_system, asked last,
\* is not among the sources)
_declare_victory(ugs) ==
    LET wins(i) == \/ ugs.players[i].dao_xing >= 20
                   \/ ultimate_controlled_zones(ugs, ugs.players[i].name) >= 5
    IN IF \E i \in 1..Len(ugs.players) : wins(i)
       THEN LET first == CHOOSE i \in 1..Len(ugs.players) :
                             wins(i) /\ \A k \in 1..(i - 1) : ~wins(k)
            IN [winner |-> ugs.players[first].name,
                victory_type |-> IF ugs.players[first].dao_xing >= 20
                                 THEN "dao_xing" ELSE "zone_control"]
       ELSE [winner |-> None, victory_type |-> None]

\* if self._check_victory_conditions(): break, on a game in progress:
\* _declare_victory shows the winner and sets game_running = False
CheckVictoryConditions ==
    /\ ultimate.pc = "check"
    /\ LET d == _declare_victory(ultimate)
       IN /\ ultimate' = [ultimate EXCEPT !.pc = "checked",
                                           !.game_running = (d.winner = None)]
          /\ last' = [NoCall EXCEPT !.op = "_check_victory_conditions",
                                    !.target = d.winner, !.result = d.victory_type]
    /\ UNCHANGED <<game_state, phase>>

\* self.game_state.winner = player: the attribute winner is set on the
\* GameState object (it has none before the first assignment)
set_winner(gs, name) ==
    [f \in DOMAIN gs \cup {"winner"} |-> IF f = "winner" THEN name ELSE gs[f]]

\* max(players, key=controlled zones): the first of the players with the
\* largest count
best_player(gs) ==
    CHOOSE i \in 1..Len(gs.players) :
        /\ \A k \in 1..Len(gs.players) :
               controlled_zones(gs, gs.players[k].name) <= controlled_zones(gs, gs.players[i].name)
        /\ \A k \in 1..(i - 1) :
               controlled_zones(gs, gs.players[k].name) < controlled_zones(gs, gs.players[i].name)

\* a player of CompleteEnhancedGame._check_victory_conditions meets a victory
\* condition: more than half of the zones, or the resource thresholds
complete_victory(gs, i) ==
    \/ controlled_zones(gs, gs.players[i].name) > Cardinality(GuaZones) \div 2
    \/ (gs.players[i].qi >= 20 /\ gs.players[i].dao_xing >= 15 /\ gs.players[i].cheng_yi >= 15)

\* CompleteEnhancedGame._check_victory_conditions on self.game_state = gs:
\* the value returned and the game state it leaves
complete_check_victory_conditions(gs) ==
    IF \E i \in 1..Len(gs.players) : complete_victory(gs, i)
    THEN LET first == CHOOSE i \in 1..Len(gs.players) :
                          complete_victory(gs, i) /\ \A k \in 1..(i - 1) : ~complete_victory(gs, k)
         IN [returned |-> TRUE, state |-> set_winner(gs, gs.players[first].name)]
    ELSE IF gs.turn > 50
    THEN [returned |-> TRUE, state |-> set_winner(gs, gs.players[best_player(gs)].name)]
    ELSE [returned |-> FALSE, state |-> gs]

\* while not self._check_victory_conditions(), on a game in progress
CompleteCheckVictory ==
    /\ last.op = "input"
    /\ LET r == complete_check_victory_conditions(game_state)
       IN /\ game_state' = r.state
          /\ last' = [last EXCEPT !.op = "complete_check_victory_conditions",
                                  !.result = IF r.returned THEN "True" ELSE "False"]
    /\ UNCHANGED <<phase, ultimate>>

(***************************************************************************)
(* The specifications                                                      *)
(***************************************************************************)
\* The resolvers under a caller like main.py's, which sets up two players
\* (the default) and never advances current_player_index.
Init == Setup(2) /\ phase = NoPhase /\ ultimate = NoUltimate

Next == PlayCardCall(0) \/ MoveCall \/ StudyCall \/ MeditateCall

Spec == Init /\ [][Next]_vars

\* The board under callers that place influence for every player in turn.
InitBoard ==
    /\ \E n \in 1..MaxPlayers : Setup(n)
    /\ phase = NoPhase /\ ultimate = NoUltimate

NextBoard == PlayCardCall(MaxExtraInfluence) \/ SwitchPlayer

SpecBoard == InitBoard /\ [][NextBoard]_vars

\* main_game_loop(bot_mode, num_players = 2) from the state setup_game gives
InitPhase ==
    /\ Setup(2)
    /\ phase = [NoPhase EXCEPT !.pc = "round"]
    /\ ultimate = NoUltimate

NextPhase ==
    StartRound \/ StartTurn \/ Choose \/ InvalidChoice \/ Pass \/ OutOfAP \/ CheckVictory

SpecPhase == InitPhase /\ [][NextPhase]_vars

\* the zones other than 乾 and 坤, in the order boards of a game in progress
\* are drawn from
LateZones == <<"zhen", "xun", "kan", "li", "gen", "dui">>

\* A board of a two-player game in progress: the first player controls the
\* first own of LateZones with control_threshold markers each, the second
\* player the next other of them, and the first player has lead markers in
\* 乾 (fewer than the threshold, so no controller there).
BoardInProgress(gs, own, other, lead) ==
    LET p1 == gs.players[1].name
        p2 == gs.players[2].name
        held(z, name) == [markers |-> [p \in {name} |-> control_threshold(gs)],
                          controller |-> name]
    IN [gs EXCEPT !.board.gua_zones =
           [z \in GuaZones |->
               IF \E k \in 1..own : LateZones[k] = z THEN held(z, p1)
               ELSE IF \E k \in (own + 1)..(own + other) : LateZones[k] = z THEN held(z, p2)
               ELSE IF z = "qian" /\ lead > 0
               THEN [markers |-> [p \in {p1} |-> lead], controller |-> None]
               ELSE gs.board.gua_zones[z]]]

\* main_game_loop one round before the ceiling, on a board in progress
InitEndgame ==
    /\ \E own \in 2..4, other \in {0, 2}, lead \in 1..2, qi2 \in {8, 9} :
           game_state = [BoardInProgress(setup_game(2, Shuffled(0)).state, own, other, lead)
                            EXCEPT !.players[2].qi = qi2]
    /\ last = NoCall
    /\ phase = [NoPhase EXCEPT !.pc = "round", !.turn_count = max_turns - 1,
                               !.resolved = MaxResolved - 2]
    /\ ultimate = NoUltimate

NextEndgame ==
    \/ StartRound \/ StartTurn \/ Choose \/ InvalidChoice \/ Pass \/ OutOfAP
    \/ CheckVictory
    \/ MaxTurnsReached

SpecEndgame == InitEndgame /\ [][NextEndgame]_vars

\* a two-player game whose current player has any qi, dao_xing and cheng_yi
\* up to MaxGate, before a menu is built with any AP up to MaxAP
InitCatalog ==
    /\ \E qi \in 0..MaxGate, dao_xing \in 0..MaxGate, cheng_yi \in 0..MaxGate :
           game_state = [setup_game(2, Shuffled(0)).state EXCEPT
                            !.players[1].qi = qi,
                            !.players[1].dao_xing = dao_xing,
                            !.players[1].cheng_yi = cheng_yi]
    /\ last = [NoCall EXCEPT !.target = {}]
    /\ \E ap \in 0..MaxAP : phase = [NoPhase EXCEPT !.pc = "catalog", !.ap = ap]
    /\ ultimate = NoUltimate

NextCatalog == BuildMenu

SpecCatalog == InitCatalog /\ [][NextCatalog]_vars

(***************************************************************************)
(* yijing_mechanics.py: the yin-yang balance and the taiji transformation. *)
(* Python's / on integers gives the quotient as a float; the model keeps   *)
(* a ratio as the fraction num / den (den # 0) and compares fractions by   *)
(* cross multiplication, which orders them as the correctly rounded        *)
(* quotients are ordered against the literals 0.4 and 0.6.                 *)
(***************************************************************************)
YinYangBalance(yin, yang) == [yin_points |-> yin, yang_points |-> yang]

Fraction(num, den) == [num |-> num, den |-> den]

\* p <= q for fractions whose denominators may be negative
FractionLeq(p, q) ==
    IF (p.den > 0) = (q.den > 0)
    THEN p.num * q.den <= q.num * p.den
    ELSE p.num * q.den >= q.num * p.den

\* YinYangBalance.balance_ratio
balance_ratio(b) ==
    LET total == b.yin_points + b.yang_points
        smaller == Min(b.yin_points, b.yang_points)
    IN IF total = 0 THEN Fraction(1, 1) ELSE Fraction(smaller * 2, total)

\* the defaults of get_config in apply_transformation
transform_yin_loss == 3
transform_yang_gain == 2

\* TaijiMechanism.apply_transformation: transforms says whether
\* random.random() fell below the probability (0.8 or 0.1, so either can
\* happen for every balance)
apply_transformation(b, transforms) ==
    IF ~transforms THEN b
    ELSE IF b.yin_points > b.yang_points
    THEN YinYangBalance(b.yin_points - transform_yin_loss,
                        b.yang_points + transform_yang_gain)
    ELSE YinYangBalance(b.yin_points + transform_yang_gain,
                        b.yang_points - transform_yin_loss)

\* a caller applies the transformation to the balance it holds
ApplyTransformation ==
    /\ last.op \in {"YinYangBalance", "apply_transformation"}
    /\ last.index < MaxTransforms
    /\ \E transforms \in BOOLEAN :
           last' = [last EXCEPT !.op = "apply_transformation",
                                !.index = @ + 1,
                                !.target = apply_transformation(@, transforms),
                                !.result = IF transforms THEN "transformed" ELSE "kept"]
    /\ UNCHANGED <<game_state, phase, ultimate>>

\* a balance of any yin and yang points from 0 to MaxPoints, before any
\* transformation
InitTaiji ==
    /\ game_state = NoGame
    /\ \E yin \in 0..MaxPoints, yang \in 0..MaxPoints :
           last = [NoCall EXCEPT !.op = "YinYangBalance", !.index = 0,
                                 !.target = YinYangBalance(yin, yang)]
    /\ phase = NoPhase /\ ultimate = NoUltimate

NextTaiji == ApplyTransformation

SpecTaiji == InitTaiji /\ [][NextTaiji]_vars

\* BianguaTransformation._calculate_success_rate, in hundredths: base_rate
\* 0.7, risk_modifiers.get(risk_level, 0), min(0.2, dao_xing * 0.01), 0.1 for
\* a balance ratio from 0.4 to 0.6, and max(0.1, min(0.95, final_rate))
RiskLevels == {"low", "medium", "high"}

risk_modifiers(risk_level) ==
    CASE risk_level = "low" -> 20
      [] risk_level = "medium" -> 0
      [] risk_level = "high" -> -30
      [] OTHER -> 0

_calculate_success_rate_uncapped(risk_level, player) ==
    LET base_rate == 70
        dao_xing_bonus == player.dao_xing
        ratio == balance_ratio(player.yin_yang_balance)
        balance_bonus == IF FractionLeq(Fraction(4, 10), ratio)
                            /\ FractionLeq(ratio, Fraction(6, 10))
                         THEN 10 ELSE 0
        final_rate == base_rate + risk_modifiers(risk_level) + dao_xing_bonus
                      + balance_bonus
    IN Max(10, Min(95, final_rate))

_calculate_success_rate(risk_level, player) ==
    LET base_rate == 70
        dao_xing_bonus == Min(20, player.dao_xing)
        ratio == balance_ratio(player.yin_yang_balance)
        balance_bonus == IF FractionLeq(Fraction(4, 10), ratio)
                            /\ FractionLeq(ratio, Fraction(6, 10))
                         THEN 10 ELSE 0
        final_rate == base_rate + risk_modifiers(risk_level) + dao_xing_bonus
                      + balance_bonus
    IN Max(10, Min(95, final_rate))

\* a transformation of some risk level computes its success rate for the
\* player of its game context
CalculateSuccessRate ==
    /\ last.op = "BianguaTransformation"
    /\ last' = [last EXCEPT
                   !.op = "_calculate_success_rate",
                   !.target.success_rate =
                       _calculate_success_rate(last.target.risk_level,
                                               last.target.player),
                   !.result = "returned"]
    /\ UNCHANGED <<game_state, phase, ultimate>>

\* a transformation of any risk level and a player of any dao_xing up to
\* MaxInsight and any balance of up to MaxPoints yin and yang points; no
\* rate computed yet
InitBiangua ==
    /\ game_state = NoGame
    /\ \E risk_level \in RiskLevels, dao_xing \in 0..MaxInsight,
          yin \in 0..MaxPoints, yang \in 0..MaxPoints :
           last = [NoCall EXCEPT
                      !.op = "BianguaTransformation",
                      !.target = [risk_level |-> risk_level,
                                  player |-> [dao_xing |-> dao_xing,
                                              yin_yang_balance |->
                                                  YinYangBalance(yin, yang)],
                                  success_rate |-> 0]]
    /\ phase = NoPhase /\ ultimate = NoUltimate

NextBiangua == CalculateSuccessRate

SpecBiangua == InitBiangua /\ [][NextBiangua]_vars

\* ZhanBuSystem.divine_fortune.  The fortunes, written in the code as 大凶,
\* 中凶, 小凶, 平, 小吉, 中吉, 大吉, are named here da_xiong, zhong_xiong,
\* xiao_xiong, ping, xiao_ji, zhong_ji, da_ji; the advice levels 基础, 具体,
\* 深层 are named basic, specific, deep.
GUA_ATTRIBUTES == GuaZoneOrder

advice_level(player_dao_xing) ==
    IF player_dao_xing <= 3 THEN "basic"
    ELSE IF player_dao_xing <= 7 THEN "specific"
    ELSE "deep"

fortune_types_unsafe(player_dao_xing) ==
    IF player_dao_xing <= 3 THEN <<"xiao_xiong", "xiao_ji", "zhong_ji">>
    ELSE IF player_dao_xing <= 7
    THEN <<"xiao_xiong", "ping", "xiao_ji", "zhong_ji", "da_ji">>
    ELSE <<"da_xiong", "zhong_xiong", "xiao_xiong", "ping", "xiao_ji", "zhong_ji",
           "da_ji">>

fortune_types(player_dao_xing) ==
    IF player_dao_xing <= 3 THEN <<"ping", "xiao_ji", "zhong_ji">>
    ELSE IF player_dao_xing <= 7
    THEN <<"xiao_xiong", "ping", "xiao_ji", "zhong_ji", "da_ji">>
    ELSE <<"da_xiong", "zhong_xiong", "xiao_xiong", "ping", "xiao_ji", "zhong_ji",
           "da_ji">>

weights(player_dao_xing) ==
    IF player_dao_xing <= 3 THEN <<3, 2, 1>>
    ELSE IF player_dao_xing <= 7 THEN <<1, 2, 3, 3, 1>>
    ELSE <<1, 1, 2, 3, 3, 2, 1>>

\* random.choices(fortune_types, weights=weights)[0]: any element of
\* positive weight
random_choices(population, w) ==
    {population[k] : k \in {j \in 1..Len(population) : w[j] > 0}}

\* the dict divine_fortune returns, for the gua and the fortune drawn
ZhanBuSystem_divine_fortune(player_dao_xing, primary_gua, fortune) ==
    [gua |-> primary_gua, fortune |-> fortune,
     advice_level |-> advice_level(player_dao_xing),
     dao_xing_threshold |-> player_dao_xing]

\* a caller divines a fortune with its dao_xing
DivineFortune ==
    /\ last.op = "ZhanBuSystem"
    /\ \E k \in 1..Len(GUA_ATTRIBUTES) :
         \E fortune \in random_choices(fortune_types(last.index), weights(last.index)) :
           last' = [last EXCEPT
                       !.op = "divine_fortune",
                       !.target = ZhanBuSystem_divine_fortune(last.index,
                                                              GUA_ATTRIBUTES[k], fortune),
                       !.result = "returned"]
    /\ UNCHANGED <<game_state, phase, ultimate>>

\* a caller with any dao_xing up to MaxDivineInsight, before the divination
InitZhanBu ==
    /\ game_state = NoGame
    /\ \E player_dao_xing \in 0..MaxDivineInsight :
           last = [NoCall EXCEPT
                      !.op = "ZhanBuSystem", !.index = player_dao_xing,
                      !.target = [gua |-> None, fortune |-> None, advice_level |-> None,
                                  dao_xing_threshold |-> player_dao_xing]]
    /\ phase = NoPhase /\ ultimate = NoUltimate

NextZhanBu == DivineFortune

SpecZhanBu == InitZhanBu /\ [][NextZhanBu]_vars

\* the zones whose controller the boards of SpecModifiers are drawn over
DrawnZones == {"qian", "kun", "zhen", "li", "gen", "dui"}

\* a two-player game in progress, before a call of get_current_modifiers:
\* every zone of DrawnZones without controller or controlled by either player
InitModifiers ==
    /\ \E controller \in [DrawnZones -> {None, "P1", "P2"}] :
           LET gs == setup_game(2, Shuffled(0)).state
           IN game_state =
                  [gs EXCEPT !.board.gua_zones =
                      [z \in GuaZones |->
                          IF z \in DrawnZones /\ controller[z] # None
                          THEN [markers |-> [p \in {controller[z]} |-> control_threshold(gs)],
                                controller |-> controller[z]]
                          ELSE gs.board.gua_zones[z]]]
    /\ last = [NoCall EXCEPT !.index = 0]
    /\ phase = [NoPhase EXCEPT !.pc = "modifiers"]
    /\ ultimate = NoUltimate

NextModifiers == GetModifiers

SpecModifiers == InitModifiers /\ [][NextModifiers]_vars

\* the players of a started UltimateTianJiBianGame, under calls of the ledger
\* operations on the current player
InitLedger ==
    /\ game_state = NoGame
    /\ last = [NoCall EXCEPT !.target = [r \in {} |-> 0]]
    /\ phase = NoPhase
    /\ ultimate = [UltimateGameState(<<"P1", "P2">>) EXCEPT !.pc = "ledger"]

NextLedger == ModifyResourceCall \/ PayCostCall

SpecLedger == InitLedger /\ [][NextLedger]_vars

\* the dao_xing values the games in progress are drawn with
DaoXingSet == {18, 20, 21}

\* An UltimateTianJiBianGame in progress at the victory check that ends a
\* turn: the first player controls the first own zones of the zone list, the
\* second player the next other.
UltimateInProgress(own, other, dao1, dao2) ==
    LET ugs == UltimateGameState(<<"P1", "P2">>)
        held(name) == [controller |-> name, influence |-> [p \in {name} |-> 2]]
    IN [ugs EXCEPT !.pc = "check",
                   !.players[1].dao_xing = dao1,
                   !.players[2].dao_xing = dao2,
                   !.zones = [z \in GuaZones |->
                       IF \E k \in 1..own : UltimateZoneOrder[k] = z THEN held("P1")
                       ELSE IF \E k \in (own + 1)..(own + other) : UltimateZoneOrder[k] = z
                       THEN held("P2")
                       ELSE ugs.zones[z]]]

\* the (qi, dao_xing, cheng_yi) the second player of a CompleteEnhancedGame
\* in progress is drawn with: the starting values, one qi more, and the
\* resource thresholds of the victory
ResourceSet == {<<8, 1, 2>>, <<9, 1, 2>>, <<20, 15, 15>>}

\* either game in progress, at its victory check
InitVictory ==
    /\ \/ /\ \E own \in 0..MaxHeld, other \in 0..MaxHeld,
                dao1 \in DaoXingSet, dao2 \in DaoXingSet, index \in 0..1 :
                 /\ own + other <= Len(UltimateZoneOrder)
                 /\ ultimate = [UltimateInProgress(own, other, dao1, dao2)
                                   EXCEPT !.current_player_index = index]
          /\ game_state = NoGame
          /\ last = NoCall
       \/ /\ \E own \in 0..MaxHeld, other \in 0..MaxHeld, res \in ResourceSet,
                turn \in {50, 51} :
                 /\ own + other <= Len(LateZones)
                 /\ game_state =
                        [BoardInProgress(setup_game(2, Shuffled(0)).state, own, other, 0)
                            EXCEPT !.turn = turn,
                                   !.players[2].qi = res[1],
                                   !.players[2].dao_xing = res[2],
                                   !.players[2].cheng_yi = res[3]]
          /\ ultimate = NoUltimate
          /\ last = [NoCall EXCEPT !.op = "input"]
    /\ phase = NoPhase

NextVictory == CheckVictoryConditions \/ CompleteCheckVictory

SpecVictory == InitVictory /\ [][NextVictory]_vars

\* UltimateTianJiBianGame.start_game with two player names
InitUltimate ==
    /\ Setup(2)
    /\ phase = NoPhase
    /\ ultimate = UltimateGameState(<<"P1", "P2">>)

NextUltimate == _start_turn \/ _action_play_card \/ _end_turn

SpecUltimate == InitUltimate /\ [][NextUltimate]_vars

\* setup_game under callers that ask for any number of players
InitSetup ==
    /\ game_state = NoGame
    /\ \E n \in (-1)..MaxSetupPlayers : last = [NoCall EXCEPT !.op = "input", !.index = n]
    /\ phase = NoPhase /\ ultimate = NoUltimate

NextSetup == SetupCall

SpecSetup == InitSetup /\ [][NextSetup]_vars

(***************************************************************************)
(* Zone control (SpecBoard)                                                *)
(***************************************************************************)
Markers(z) == game_state.board.gua_zones[z].markers

Controller(z) == game_state.board.gua_zones[z].controller

\* the players holding the greatest marker count of zone z
Leaders(z) ==
    {p \in DOMAIN Markers(z) : \A q \in DOMAIN Markers(z) : Markers(z)[q] <= Markers(z)[p]}

\* base_limit // 2 + 1 for the number of players of the game
Threshold ==
    LET n == Len(game_state.players)
    IN (IF n = 2 THEN 5 ELSE IF n = 3 THEN 6 ELSE 7) \div 2 + 1

\* C1: no zone has a controller while two or more players hold that zone's
\* maximum marker count, whether or not that maximum reaches the threshold.
C1_NoControllerOnTie ==
    \A z \in GuaZones : Cardinality(Leaders(z)) >= 2 => Controller(z) = None

\* two players tie at the threshold itself in a zone, which has no controller
C1_Witness ==
    \E z \in GuaZones :
        /\ Cardinality(Leaders(z)) >= 2
        /\ \A p \in Leaders(z) : Markers(z)[p] >= Threshold
        /\ Controller(z) = None
        /\ last.op = "play_card" /\ last.result = "returned"

\* C2: a zone's controller is the one player holding the strictly greatest
\* marker count when that count is at least base_limit // 2 + 1, and is
\* unset otherwise; so a zone never has more than one controller.
C2_ControllerIffStrictLeaderAtThreshold ==
    \A z \in GuaZones :
        IF Cardinality(Leaders(z)) = 1
           /\ \A p \in Leaders(z) : Markers(z)[p] >= Threshold
        THEN Controller(z) \in Leaders(z)
        ELSE Controller(z) = None

\* one zone is controlled while another has a single leader below the
\* threshold and no controller
C2_Witness ==
    /\ \E z \in GuaZones : Controller(z) # None
    /\ \E z \in GuaZones :
           /\ Cardinality(Leaders(z)) = 1
           /\ \A p \in Leaders(z) : Markers(z)[p] < Threshold
           /\ Controller(z) = None

(***************************************************************************)
(* The resolvers and the catalog (Spec)                                    *)
(***************************************************************************)
NonNegative(gs) ==
    \A i \in 1..Len(gs.players) :
        gs.players[i].qi >= 0 /\ gs.players[i].dao_xing >= 0 /\ gs.players[i].cheng_yi >= 0

\* C3: every player's qi, dao_xing and cheng_yi is non-negative, and stays
\* so after resolving any entry get_valid_actions offers the acting player.
C3_ResourcesNonNegative ==
    /\ NonNegative(game_state)
    /\ \A ap \in 0..MaxAP, mods \in ModsSet :
           LET menu == get_valid_actions(game_state, Acting(game_state), ap, mods)
           IN \A id \in 1..Len(menu) :
                  menu[id].action \in Callable =>
                      LET r == CallEntry(game_state, menu[id], mods, [k \in 1..3 |-> 1])
                      IN r.returned => NonNegative(r.state)

\* the acting player has spent all qi on moves
C3_Witness ==
    /\ Acting(game_state).qi = 0
    /\ last.op = "move" /\ last.result = "returned"

\* C4: a call of play_card, move, study or meditate leaves the content of
\* its input state as it was, and a returned state is another object.
C4_InputStateUntouched ==
    last.op \in {"play_card", "move", "study", "meditate"} =>
        /\ last.input_intact
        /\ last.result = "returned" => last.ret_distinct

\* play_card rejected a zone the card at the given index does not support,
\* and that card is still in the caller's hand
C4_Witness ==
    /\ last.op = "play_card" /\ last.result = "None"
    /\ 0 <= last.index /\ last.index < Len(Acting(game_state).hand)
    /\ last.input_intact

(***************************************************************************)
(* Zone control in the ultimate game (SpecUltimate)                        *)
(***************************************************************************)
\* the players holding the greatest influence of zone z of the ultimate game
UltimateLeaders(z) ==
    LET influence == ultimate.zones[z].influence
    IN {p \in DOMAIN influence : \A q \in DOMAIN influence : influence[q] <= influence[p]}

\* C5: in every game loop a controlled zone's controller is the single
\* strict leader of that zone (in the game of main.py at or above the
\* threshold; the ultimate game has no base limit, so there only the single
\* strict leader is asked for): no operation sets a controller otherwise.
C5_ControllerIsSingleStrictLeader ==
    /\ \A z \in GuaZones :
           Controller(z) # None =>
               /\ Leaders(z) = {Controller(z)}
               /\ Markers(z)[Controller(z)] >= Threshold
    /\ \A z \in GuaZones :
           ultimate.zones[z].controller # None =>
               UltimateLeaders(z) = {ultimate.zones[z].controller}

(***************************************************************************)
(* The catalog (Spec)                                                      *)
(***************************************************************************)
\* C6: the catalog has a move entry for each location other than the current
\* one if and only if ap >= 1 and qi >= max(1 - qi_discount, 0).
C6_MoveOfferedIffAffordable ==
    \A ap \in 0..MaxAP, mods \in ModsSet :
        LET player == Acting(game_state)
            menu == get_valid_actions(game_state, player, ap, mods)
        IN \A z \in Zone \ {player.position} :
               (\E id \in 1..Len(menu) :
                    menu[id].action = "move" /\ menu[id].target = ZoneValue[z])
               <=> (ap >= 1 /\ player.qi >= Max(1 - mods.qi_discount, 0))

\* C7: move is rejected exactly when the target is no location, or is the
\* current location, or qi is below max(1 - qi_discount, 0).
C7_MoveRejectedInThreeCases ==
    \A target \in MoveTargets, mods \in ModsSet :
        LET player == Acting(game_state)
        IN ~move(game_state, target, mods).returned
           <=> \/ \A z \in Zone : ZoneValue[z] # target
               \/ target = ZoneValue[player.position]
               \/ player.qi < Max(1 - mods.qi_discount, 0)

\* C8: a move to another location and the move back, both succeeding under
\* the same modifiers, leave the player at the first location, in
\* player.position and in board.player_positions, with qi lower by twice
\* max(1 - qi_discount, 0) and the rest of the state as it was.
C8_MoveRoundTrip ==
    \A y \in Zone \ {Acting(game_state).position}, mods \in ModsSet :
        LET i == get_current_player(game_state)
            player == game_state.players[i]
            there == move(game_state, ZoneValue[y], mods)
            back == move(there.state, ZoneValue[player.position], mods)
        IN (there.returned /\ back.returned) =>
               /\ back.state.players[i].position = player.position
               /\ back.state.board.player_positions[player.name] = player.position
               /\ back.state = [game_state EXCEPT !.players[i].qi =
                                   player.qi - 2 * Max(1 - mods.qi_discount, 0)]

\* the player has moved away from the start, and can pay a round trip at
\* full cost from here
C8_Witness ==
    /\ last.op = "move" /\ last.result = "returned"
    /\ Acting(game_state).position # "DI"
    /\ \E y \in Zone \ {Acting(game_state).position} :
           LET there == move(game_state, ZoneValue[y], Modifiers)
           IN /\ there.returned
              /\ move(there.state, ZoneValue[Acting(game_state).position], Modifiers).returned

(***************************************************************************)
(* The action phase (SpecPhase)                                            *)
(***************************************************************************)
\* C9: at every iteration of an action phase, each play-card entry and each
\* move entry the catalog offers is resolved into a new state by its
\* resolver on the game state current at that iteration, whatever the
\* earlier actions of the phase did to the hand and the qi.
C9_OfferedPlayAndMoveResolve ==
    (phase.pc = "phase" /\ phase.ap > 0) =>
        \A id \in 1..Len(actions_menu) :
            actions_menu[id].action \in {"enhanced_play_card", "move"} =>
                CallEntry(game_state, actions_menu[id], phase.mods,
                          [k \in 1..3 |-> 1]).returned

\* C10: at every iteration of an action phase, the choice of any offered
\* entry other than pass ends in one of two ways: the entry is carried out
\* (its resolver returns a new state, or its handler runs) and its AP cost
\* is deducted, or its resolver rejects it; no entry is left with the game
\* state and the AP as they were and no resolver or handler run.
C10_ChoiceCarriedOutOrRejected ==
    (phase.pc = "phase" /\ phase.ap > 0) =>
        \A id \in 1..Len(actions_menu) :
            \A draws \in DrawsOf(actions_menu[id]), used \in UsesOf(actions_menu[id]) :
                LET entry == actions_menu[id]
                    r == Resolve(entry, draws, used)
                IN entry.action # "pass" =>
                       \/ /\ r.result \in {"new_state", "shown", "used", "not_used"}
                          /\ r.ap = phase.ap - entry.cost
                       \/ r.result \in {"None", "raised"}

(***************************************************************************)
(* setup_game (SpecSetup)                                                  *)
(***************************************************************************)
\* C11: setup_game(n) raises and builds no game for n outside 1..8; for n in
\* 1..8 it returns a state of n players with pairwise distinct names (the
\* n first player names when n > 1), each with qi 8, dao_xing 1, cheng_yi 2
\* and at most 4 cards, current_player_index 0, turn 1, base limit 5 / 6 / 7
\* for n = 2 / 3 / other, and eight zones without markers or controller.
C11_SetupGame ==
    last.op = "setup_game" =>
        LET n == last.index
            players == game_state.players
        IN IF ~(1 <= n /\ n <= 8)
           THEN last.result = "raised" /\ game_state = NoGame
           ELSE /\ last.result = "returned"
                /\ Len(players) = n
                /\ \A i, j \in 1..n : players[i].name = players[j].name => i = j
                /\ n > 1 => \A i \in 1..n : players[i].name = PlayerNames[i]
                /\ \A i \in 1..n :
                       /\ players[i].qi = 8 /\ players[i].dao_xing = 1
                       /\ players[i].cheng_yi = 2
                       /\ Len(players[i].hand) <= 4
                /\ game_state.current_player_index = 0
                /\ game_state.turn = 1
                /\ game_state.board.base_limit =
                       (IF n = 2 THEN 5 ELSE IF n = 3 THEN 6 ELSE 7)
                /\ \A z \in GuaZones :
                       /\ DOMAIN game_state.board.gua_zones[z].markers = {}
                       /\ game_state.board.gua_zones[z].controller = None

\* a game of eight players has been set up, the deck running out before
\* the last hands
C11_Witness ==
    /\ last.op = "setup_game" /\ last.result = "returned"
    /\ Len(game_state.players) = 8
    /\ Len(game_state.players[1].hand) = 4
    /\ Len(game_state.players[8].hand) < 4


\* C12: victory is evaluated after each single player's full turn: no player's
\* turn begins in a round after another player of that round has finished
\* an action phase in a state that satisfies a victory condition (here the
\* zone control victory of main_game_loop).
C12_VictoryCheckedAfterEachTurn ==
    (phase.pc = "turn" /\ phase.i > 0) => ~zone_control_victory(game_state)


\* the players of ugs that satisfy the resource-threshold victory, and those
\* that satisfy the zone-control-count victory
ByResource(ugs) == {i \in 1..Len(ugs.players) : ugs.players[i].dao_xing >= 20}

ByZones(ugs) ==
    {i \in 1..Len(ugs.players) :
        ultimate_controlled_zones(ugs, ugs.players[i].name) >= 5}

Earliest(S) == CHOOSE i \in S : \A k \in S : i <= k

Resources(p) == p.qi + p.dao_xing + p.cheng_yi

\* the players no other player beats on the tiebreak score: more zones
\* controlled, and among players with as many zones more summed resources
TiebreakBest(gs) ==
    {i \in 1..Len(gs.players) :
        \A k \in 1..Len(gs.players) :
            LET zi == controlled_zones(gs, gs.players[i].name)
                zk == controlled_zones(gs, gs.players[k].name)
            IN zk < zi \/ (zk = zi /\ Resources(gs.players[k]) <= Resources(gs.players[i]))}

\* C14: when the turn counter exceeds the ceiling with no victory condition
\* met, the winner declared is a player with the most zones controlled and,
\* among the players tied on zones, the highest summed resources.
C14_TiebreakAtCeiling ==
    (/\ last.op = "complete_check_victory_conditions"
     /\ game_state.turn > 50
     /\ \A i \in 1..Len(game_state.players) : ~complete_victory(game_state, i)) =>
        /\ "winner" \in DOMAIN game_state
        /\ \E i \in TiebreakBest(game_state) : game_state.winner = game_state.players[i].name

\* C15: checking victory is a pure read: an evaluation of the victory
\* conditions leaves every field of the game state as it was, whether or not
\* a winner is found.
C15_VictoryCheckIsPureRead ==
    [][last'.op = "complete_check_victory_conditions" => game_state' = game_state]_vars


C17_ModifiersStackAdditively ==
    last.op = "get_current_modifiers" =>
        LET player == [name |-> last.target]
        IN /\ phase.mods.extra_ap = ControlledWith(player, game_state, "EXTRA_AP")
           /\ phase.mods.extra_influence =
                  ControlledWith(player, game_state, "EXTRA_INFLUENCE")
           /\ phase.mods.qi_discount = ControlledWith(player, game_state, "QI_DISCOUNT")
           /\ phase.mods.extra_dao_xing_on_task =
                  ControlledWith(player, game_state, "DAO_XING_ON_TASK")

\* the modifiers of a player who controls two zones with the extra AP bonus
\* while the other player controls the zone with the extra influence bonus
C17_Witness ==
    /\ last.op = "get_current_modifiers"
    /\ last.target = "P2"
    /\ phase.mods.extra_ap = 2
    /\ phase.mods.extra_influence = 0
    /\ game_state.board.gua_zones["zhen"].controller = "P1"
    /\ game_state.board.gua_zones["dui"].controller = "P2"


\* the change a recorded ledger call asks for, per resource: the amount of
\* modify_resource, minus the amounts of the cost of pay_cost
Asked(call) ==
    [r \in DOMAIN call.target |->
        IF call.op = "pay_cost" THEN -call.target[r] ELSE call.target[r]]

\* C18: no resource operation silently clamps: a modify_resource or pay_cost
\* that would take a resource of the player below zero leaves every resource
\* of the player unchanged, instead of setting the resource to 0.
C18_NoSilentClamp ==
    [][(/\ last'.op \in {"modify_resource", "pay_cost"}
        /\ \E r \in DOMAIN Asked(last') :
               ultimate.players[UltimateCurrent][r] + Asked(last')[r] < 0) =>
          ultimate'.players = ultimate.players]_vars


\* the marker count of the player named name in zone z of gs, 0 if absent
MarkersOf(gs, z, name) ==
    IF name \in DOMAIN gs.board.gua_zones[z].markers
    THEN gs.board.gua_zones[z].markers[name] ELSE 0

\* the controller a re-evaluation gives zone z of gs: the one player with
\* the strictly greatest marker count, if that count reaches the threshold
Reevaluated(gs, z) ==
    LET m == gs.board.gua_zones[z].markers
        top == {p \in DOMAIN m : \A q \in DOMAIN m : m[q] <= m[p]}
    IN IF Cardinality(top) = 1 /\ \A p \in top : m[p] >= gs.board.base_limit \div 2 + 1
       THEN CHOOSE p \in top : TRUE
       ELSE None

\* a play of the card at index i of the acting player's hand into zone z is
\* one play_card accepts
PlayAccepted(gs, i, z) ==
    /\ 0 <= i /\ i <= Len(Acting(gs).hand) - 1
    /\ \E k \in 1..Len(Acting(gs).hand[i + 1].associated_guas) :
           Acting(gs).hand[i + 1].associated_guas[k] = z

\* C19: play_card(state, i, zone, mods) is rejected when i is outside
\* 0..len(hand)-1 or zone is not among the card's associated zones;
\* otherwise the returned state differs from the input exactly in that the
\* acting player's hand has lost the card at index i (the rest in order),
\* the player's marker count in the zone has grown by 1 + extra_influence,
\* the zone's controller is re-evaluated, current_task_card is the played
\* card and placed_influence_this_turn is true.
C19_PlayCardEffect ==
    \A i \in -1..Len(Acting(game_state).hand), z \in GuaZones,
       e \in 0..MaxExtraInfluence :
        LET mods == [Modifiers EXCEPT !.extra_influence = e]
            r == play_card(game_state, i, z, mods)
            c == get_current_player(game_state)
            player == game_state.players[c]
            hand == player.hand
            s == r.state
        IN IF ~PlayAccepted(game_state, i, z)
           THEN ~r.returned /\ ~r.raised /\ r.input_after = game_state
           ELSE /\ r.returned
                /\ Len(s.players[c].hand) = Len(hand) - 1
                /\ \A k \in 1..(Len(hand) - 1) :
                       s.players[c].hand[k] = IF k <= i THEN hand[k] ELSE hand[k + 1]
                /\ MarkersOf(s, z, player.name) = MarkersOf(game_state, z, player.name) + 1 + e
                /\ DOMAIN s.board.gua_zones[z].markers =
                       DOMAIN game_state.board.gua_zones[z].markers \cup {player.name}
                /\ \A p \in DOMAIN game_state.board.gua_zones[z].markers \ {player.name} :
                       MarkersOf(s, z, p) = MarkersOf(game_state, z, p)
                /\ s.board.gua_zones[z].controller = Reevaluated(s, z)
                /\ s.players[c].current_task_card = hand[i + 1]
                /\ s.players[c].placed_influence_this_turn
                /\ [s.players[c] EXCEPT !.hand = hand,
                                        !.current_task_card = player.current_task_card,
                                        !.placed_influence_this_turn =
                                            player.placed_influence_this_turn] = player
                /\ \A j \in 1..Len(game_state.players) \ {c} :
                       s.players[j] = game_state.players[j]
                /\ \A y \in GuaZones \ {z} :
                       s.board.gua_zones[y] = game_state.board.gua_zones[y]
                /\ [s EXCEPT !.players = game_state.players,
                             !.board.gua_zones = game_state.board.gua_zones] = game_state

\* after a play, the acting player holds a card it can play, with extra
\* influence, into a zone another player controls and take the control
\* away, while a play of the same card into another zone is rejected
C19_Witness ==
    /\ last.op = "play_card" /\ last.result = "returned"
    /\ \E i \in 0..(Len(Acting(game_state).hand) - 1), z \in GuaZones, y \in GuaZones :
           LET mods == [Modifiers EXCEPT !.extra_influence = MaxExtraInfluence]
               r == play_card(game_state, i, z, mods)
           IN /\ PlayAccepted(game_state, i, z)
              /\ ~PlayAccepted(game_state, i, y)
              /\ game_state.board.gua_zones[z].controller \notin {None, Acting(game_state).name}
              /\ r.state.board.gua_zones[z].controller # game_state.board.gua_zones[z].controller


C21_StudyNeverFails ==
    \A draws \in DrawSet :
        LET c == get_current_player(game_state)
            player == game_state.players[c]
            mods == get_current_modifiers(player, game_state)
            r == study(game_state, mods, draws)
            grown == Len(player.hand) + 2 + (IF player.position = "REN" THEN 1 ELSE 0)
        IN /\ r.returned /\ ~r.raised
           /\ Len(r.state.players[c].hand) = grown
           /\ r.state.players[c].dao_xing =
                  player.dao_xing + (IF grown >= 5 THEN 1 ELSE 0)


\* C22: the catalog offers the gated actions exactly when their gates hold:
\* the transform entry iff AP >= 1 and cheng_yi >= 3, the divine-fortune
\* entry iff AP >= 1 and qi >= 3, the consult entry iff AP >= 1 and
\* dao_xing >= 2.
C22_GatedEntries ==
    last.op = "get_valid_actions" =>
        LET player == Acting(game_state)
        IN /\ "biangua_prompt" \in last.target <=> (phase.ap >= 1 /\ player.cheng_yi >= 3)
           /\ "divine_fortune" \in last.target <=> (phase.ap >= 1 /\ player.qi >= 3)
           /\ "consult_yijing_prompt" \in last.target <=>
                  (phase.ap >= 1 /\ player.dao_xing >= 2)

\* a menu built with AP left for a player at the transform gate and the
\* consult gate and one qi short of the divine-fortune gate
C22_Witness ==
    /\ last.op = "get_valid_actions"
    /\ phase.ap >= 1
    /\ Acting(game_state).cheng_yi = 3
    /\ Acting(game_state).dao_xing = 2
    /\ Acting(game_state).qi = 2
    /\ "biangua_prompt" \in last.target
    /\ "consult_yijing_prompt" \in last.target
    /\ "divine_fortune" \notin last.target


\* C23: every action-menu build and every action resolution of a turn uses
\* modifiers computed from the zone control of the state current at that
\* moment: at every iteration of an action phase the extra_influence and the
\* qi_discount the phase works with are those get_current_modifiers gives
\* the player on the current game state.
C23_ModifiersCurrentInPhase ==
    (phase.pc = "phase" /\ phase.ap > 0) =>
        LET current == get_current_modifiers(PhasePlayer, game_state)
        IN /\ phase.mods.extra_influence = current.extra_influence
           /\ phase.mods.qi_discount = current.qi_discount


\* C24: during player i's action phase every resolved action is applied to
\* player i: the resolver's acting player is the player whose turn the loop
\* is running, and a step of the phase that changes the game state leaves
\* every other player's fields and zone markers as they were.
C24_ActsOnTurnPlayer ==
    [][(phase.pc = "phase" /\ phase'.pc = "phase" /\ game_state' # game_state) =>
          /\ get_current_player(game_state) = phase.i + 1
          /\ \A j \in 1..Len(game_state.players) :
                j # phase.i + 1 =>
                   /\ game_state'.players[j] = game_state.players[j]
                   /\ \A z \in GuaZones :
                         MarkersOf(game_state', z, game_state.players[j].name) =
                         MarkersOf(game_state, z, game_state.players[j].name)]_vars


\* C25: in run_action_phase the remaining AP starts at 2 + extra_ap and is
\* never below 0; at every iteration, whatever entry other than pass is
\* chosen, the AP after it is the AP before less the entry's cost when the
\* action was carried out (its resolver returned a new state, its display
\* was shown, a card was used) and the AP before when it was not (the
\* resolver rejected it or raised, no handler ran, no card was used).
C25_APAccounting ==
    /\ phase.pc = "phase" => phase.ap >= 0 /\ phase.ap <= 2 + phase.mods.extra_ap
    /\ (phase.pc = "phase" /\ phase.ap > 0) =>
          \A id \in 1..Len(actions_menu) :
             \A draws \in DrawsOf(actions_menu[id]), used \in UsesOf(actions_menu[id]) :
                LET entry == actions_menu[id]
                    r == Resolve(entry, draws, used)
                IN entry.action # "pass" =>
                      r.ap = IF r.result \in {"new_state", "shown", "used"}
                             THEN phase.ap - entry.cost
                             ELSE phase.ap


\* C26: the turn loop never spins: at every iteration of an action phase,
\* whatever entry of the offered catalog is chosen, the iteration ends the
\* phase (pass) or leaves strictly less AP than it found, and the loop has
\* begun at most max_turns rounds.
C26_IterationDecreasesAP ==
    /\ phase.turn_count <= max_turns
    /\ (phase.pc = "phase" /\ phase.ap > 0) =>
          \A id \in 1..Len(actions_menu) :
             \A draws \in DrawsOf(actions_menu[id]), used \in UsesOf(actions_menu[id]) :
                actions_menu[id].action # "pass" =>
                    Resolve(actions_menu[id], draws, used).ap < phase.ap


\* C27: placed_influence_this_turn is a per-turn flag: when an action phase
\* of a player begins, that player's flag is false in the game state the
\* phase begins with.
C27_FlagFalseAtPhaseStart ==
    [][(phase.pc = "turn" /\ phase'.pc = "phase") =>
          ~game_state'.players[phase'.i + 1].placed_influence_this_turn]_vars


(***************************************************************************)
(* yijing_mechanics.py (SpecTaiji)                                         *)
(***************************************************************************)
\* C28: starting from any pair of non-negative counters, after any number
\* of apply_transformation steps, whichever way each random draw falls,
\* yin_points and yang_points are both >= 0 and balance_ratio is within
\* [0, 1].
C28_CountersNonNegative ==
    last.op = "apply_transformation" =>
        /\ last.target.yin_points >= 0
        /\ last.target.yang_points >= 0
        /\ FractionLeq(Fraction(0, 1), balance_ratio(last.target))
        /\ FractionLeq(balance_ratio(last.target), Fraction(1, 1))


(***************************************************************************)
(* BianguaTransformation._calculate_success_rate (SpecBiangua)             *)
(***************************************************************************)
\* the closed form of the success rate in hundredths
Clamp(v, lo, hi) == IF v < lo THEN lo ELSE IF v > hi THEN hi ELSE v

RiskTerm(risk_level) ==
    IF risk_level = "low" THEN 20 ELSE IF risk_level = "high" THEN -30 ELSE 0

\* 0.4 <= yin-yang ratio <= 0.6 for a balance of non-negative points that
\* are not both zero: 2 * smaller / total between 2/5 and 3/5
Balanced(b) ==
    LET total == b.yin_points + b.yang_points
        smaller == IF b.yin_points < b.yang_points THEN b.yin_points
                   ELSE b.yang_points
    IN total > 0 /\ 2 * total <= 10 * smaller /\ 10 * smaller <= 3 * total

\* C29: the success rate, in hundredths, is clamp(70 + risk (low +20,
\* medium 0, high -30) + min(20, dao_xing) + (10 if the balance ratio is
\* from 0.4 to 0.6), 10, 95) for every risk level, dao_xing and balance; it
\* is within [10, 95], and low risk with dao_xing 9 and ratio 0.5 gives 95.
C29_SuccessRate ==
    last.op = "_calculate_success_rate" =>
        LET t == last.target
            capped == IF t.player.dao_xing < 20 THEN t.player.dao_xing ELSE 20
        IN /\ t.success_rate =
                  Clamp(70 + RiskTerm(t.risk_level) + capped
                        + (IF Balanced(t.player.yin_yang_balance) THEN 10 ELSE 0),
                        10, 95)
           /\ t.success_rate >= 10 /\ t.success_rate <= 95
           /\ (t.risk_level = "low" /\ t.player.dao_xing = 9
               /\ t.player.yin_yang_balance = YinYangBalance(1, 3)) =>
                  t.success_rate = 95

\* a rate computed for a high-risk transformation of a player above the
\* dao_xing cap with a balanced ratio: 70 - 30 + 20 + 10
C29_Witness ==
    /\ last.op = "_calculate_success_rate"
    /\ last.target.risk_level = "high"
    /\ last.target.player.dao_xing > 20
    /\ last.target.player.yin_yang_balance = YinYangBalance(2, 6)
    /\ last.target.success_rate = 70


(***************************************************************************)
(* ZhanBuSystem.divine_fortune (SpecZhanBu)                                *)
(***************************************************************************)
LowFortunes == {"ping", "xiao_ji", "zhong_ji"}

MiddleFortunes == {"xiao_xiong", "ping", "xiao_ji", "zhong_ji", "da_ji"}

HighFortunes == {"da_xiong", "zhong_xiong", "xiao_xiong", "ping", "xiao_ji",
                 "zhong_ji", "da_ji"}

\* the fortunes the claim allows a player of dao_xing d
TierOf(d) == IF d <= 3 THEN LowFortunes ELSE IF d <= 7 THEN MiddleFortunes
             ELSE HighFortunes

\* C30: for every random draw, divine_fortune with dao_xing <= 3 returns a
\* fortune among ping, xiao_ji, zhong_ji; with dao_xing from 4 to 7 one
\* among xiao_xiong, ping, xiao_ji, zhong_ji, da_ji; with dao_xing >= 8 any
\* of the seven; the fortunes that can be drawn at a dao_xing are exactly
\* those of its tier, and each tier contains the tier below.
C30_FortuneTiers ==
    last.op = "divine_fortune" =>
        LET d == last.target.dao_xing_threshold
            drawable(x) == random_choices(fortune_types(x), weights(x))
        IN /\ last.target.fortune \in TierOf(d)
           /\ drawable(d) = TierOf(d)
           /\ d > 0 => drawable(d - 1) \subseteq drawable(d)

\* a negative fortune divined at the lowest dao_xing of the middle tier
C30_Witness ==
    /\ last.op = "divine_fortune"
    /\ last.target.dao_xing_threshold = 4
    /\ last.target.fortune = "xiao_xiong"

====
